---------------------------- MODULE Spec2Model ----------------------------
(***************************************************************************)
(* Model of klickhouse's type grammar (src/klickhouse/src/types/mod.rs):   *)
(* the Type sum, its printer (ToString), its parser (FromStr, parse_args,  *)
(* eat_identifier), Type::validate, Type::validate_value and               *)
(* Type::default_value, the default read_n / write_n of the Deserializer   *)
(* and Serializer traits, and bool's Row::deserialize_row                  *)
(* (src/klickhouse/src/convert/mod.rs).                                    *)
(*                                                                         *)
(* A Type is a tuple whose first element is the constructor's name:        *)
(*   <<"Int8">>, <<"Decimal32", s>>, <<"FixedString", n>>,                 *)
(*   <<"DateTime", tz>>, <<"DateTime64", precision, tz>>,                  *)
(*   <<"Enum8", entries>>, <<"Array", t>>, <<"Tuple", <<t1, ..>> >>,       *)
(*   <<"Nullable", t>>, <<"LowCardinality", t>>, <<"Map", k, v>>.          *)
(* Text is a sequence of one-character strings.                            *)
(***************************************************************************)
EXTENDS Integers, Sequences, FiniteSets, TLC

VARIABLES
    build,      \* "debug" (overflow checks on) or "release" (wrapping arithmetic)
    ty,         \* the Type an operation is applied to
    text,       \* the text handed to Type::from_str
    parsed,     \* the outcome of Type::from_str
    result,     \* the outcome of Type::validate
    value,      \* the Value handed to validate_value
    vresult,    \* the outcome of validate_value
    pc,         \* which operation has run
    stream,     \* what the reader delivers to successive Self::read calls
    rows,       \* n, the number of values asked of read_n
    values,     \* the slice handed to write_n
    wfail,      \* the Self::write call that fails (0: none does)
    written,    \* the values the writer has taken
    iter,       \* the iteration the bulk loop is at
    outv,       \* out, the Vec read_n fills
    calls,      \* the Self::read / Self::write calls made so far
    cresult,    \* the outcome of read_n / write_n
    map,        \* the column list handed to deserialize_row
    row         \* the outcome of deserialize_row

codecVars == <<stream, rows, values, wfail, written, iter, outv, calls, cresult>>
rowVars == <<map, row>>

vars == <<build, ty, text, parsed, result, value, vresult, pc, codecVars, rowVars>>

None == <<"None">>

\* no bulk read or write is under way
NoCodec ==
    /\ stream = None /\ rows = None /\ values = None /\ wfail = None /\ written = None
    /\ iter = None /\ outv = None /\ calls = None /\ cresult = None

\* no row is being deserialized
NoRow == map = None /\ row = None

-----------------------------------------------------------------------------
(* Bounds of the checked universe *)

MaxScale == 77      \* scales / precisions 0..MaxScale
MaxFixed == 2       \* FixedString(0..MaxFixed)
MaxChain == 5       \* wrappers stacked on a leaf
MaxArity == 3       \* members of a Tuple

-----------------------------------------------------------------------------
(* enum Type *)

IntegerNames ==
    {"Int8", "Int16", "Int32", "Int64", "Int128", "Int256",
     "UInt8", "UInt16", "UInt32", "UInt64", "UInt128", "UInt256"}

ScalarNames ==
    IntegerNames \cup {"Float32", "Float64", "String", "Uuid", "Date", "Ipv4", "Ipv6"}

Int8 == <<"Int8">>
Float32 == <<"Float32">>
String == <<"String">>
Decimal32(s) == <<"Decimal32", s>>
Decimal64(s) == <<"Decimal64", s>>
Decimal128(s) == <<"Decimal128", s>>
Decimal256(s) == <<"Decimal256", s>>
FixedString(n) == <<"FixedString", n>>
DateTime(tz) == <<"DateTime", tz>>
DateTime64(precision, tz) == <<"DateTime64", precision, tz>>
Enum8(entries) == <<"Enum8", entries>>
Enum16(entries) == <<"Enum16", entries>>
LowCardinality(t) == <<"LowCardinality", t>>
Array(t) == <<"Array", t>>
Tuple(ts) == <<"Tuple", ts>>
Nullable(t) == <<"Nullable", t>>
Map(k, v) == <<"Map", k, v>>

\* chrono_tz::Tz: two of the IANA zones, identified by name
UTC == "UTC"
Tokyo == "Asia/Tokyo"
Tz == {UTC, Tokyo}

\* Type::strip_null
strip_null(t) == IF t[1] = "Nullable" THEN t[2] ELSE t

-----------------------------------------------------------------------------
(* Type::validate *)

Ok == "Ok"

\* mutant: the Decimal128 arm compares against 39
narrow_precision_error_off_by_one(t) ==
    CASE t[1] = "Decimal32" ->
            IF t[2] = 0 \/ t[2] > 9
            THEN "precision out of bounds for Decimal32" ELSE Ok
      [] t[1] \in {"DateTime64", "Decimal64"} ->
            IF t[2] = 0 \/ t[2] > 18
            THEN "precision out of bounds for Decimal64/DateTime64" ELSE Ok
      [] t[1] = "Decimal128" ->
            IF t[2] = 0 \/ t[2] > 39
            THEN "precision out of bounds for Decimal128" ELSE Ok
      [] OTHER -> Ok

\* the Decimal32 / Decimal64 / DateTime64 / Decimal128 arms
narrow_precision_error(t) ==
    CASE t[1] = "Decimal32" ->
            IF t[2] = 0 \/ t[2] > 9
            THEN "precision out of bounds for Decimal32" ELSE Ok
      [] t[1] \in {"DateTime64", "Decimal64"} ->
            IF t[2] = 0 \/ t[2] > 18
            THEN "precision out of bounds for Decimal64/DateTime64" ELSE Ok
      [] t[1] = "Decimal128" ->
            IF t[2] = 0 \/ t[2] > 38
            THEN "precision out of bounds for Decimal128" ELSE Ok
      [] OTHER -> Ok

\* the Decimal256 arm
decimal256_error(precision) ==
    IF precision = 0 \/ precision > 9
    THEN "precision out of bounds for Decimal256" ELSE Ok

\* mutant: Float32 added to the pattern
low_cardinality_allowed_float(stripped) ==
    stripped[1] \in {"String", "FixedString", "Date", "DateTime", "Ipv4", "Ipv6", "Float32"}
                    \cup IntegerNames

\* the pattern of the LowCardinality arm, matched against inner.strip_null()
low_cardinality_allowed(stripped) ==
    stripped[1] \in {"String", "FixedString", "Date", "DateTime", "Ipv4", "Ipv6"}
                    \cup IntegerNames

\* mutant: the guard lets a third dimension through
too_many_dimensions_gt(dimensions) == dimensions > 2

\* the dimension guard of the Array and Map arms
too_many_dimensions(dimensions) == dimensions >= 2

\* mutant: Array missing from the pattern
nullable_forbidden_no_array(inner) ==
    inner[1] \in {"Map", "LowCardinality", "Tuple", "Nullable"}

\* the pattern of the Nullable arm
nullable_forbidden(inner) ==
    inner[1] \in {"Array", "Map", "LowCardinality", "Tuple", "Nullable"}

\* the two matches! of the Map arm
map_key_allowed(key) ==
    key[1] \in {"String", "FixedString"} \cup IntegerNames

\* mutant: Nullable added to the value pattern
map_value_allowed_nullable(val) ==
    val[1] \in {"String", "FixedString", "Array", "Nullable"} \cup IntegerNames

map_value_allowed(val) ==
    val[1] \in {"String", "FixedString", "Array"} \cup IntegerNames

RECURSIVE validate(_, _), validate_members(_, _, _)

\* mutant: the members of a Tuple are not visited
validate_members_skipped(inner, i, dimensions) == Ok

\* the Tuple arm: for inner in inner { inner.validate(dimensions)?; }
validate_members(inner, i, dimensions) ==
    IF i > Len(inner) THEN Ok
    ELSE LET r == validate(inner[i], dimensions)
         IN  IF r # Ok THEN r ELSE validate_members(inner, i + 1, dimensions)

validate(t, dimensions) ==
    CASE t[1] \in {"Decimal32", "DateTime64", "Decimal64", "Decimal128"} ->
            narrow_precision_error(t)
      [] t[1] = "Decimal256" -> decimal256_error(t[2])
      [] t[1] = "LowCardinality" ->
            IF low_cardinality_allowed(strip_null(t[2]))
            THEN validate(t[2], dimensions)
            ELSE "illegal type in LowCardinality, not allowed"
      [] t[1] = "Array" ->
            IF too_many_dimensions(dimensions)
            THEN "too many dimensions (limited to 2D structure)"
            ELSE validate(t[2], dimensions + 1)
      [] t[1] = "Tuple" -> validate_members(t[2], 1, dimensions)
      [] t[1] = "Nullable" ->
            IF nullable_forbidden(t[2])
            THEN "nullable cannot contain composite type"
            ELSE validate(t[2], dimensions)
      [] t[1] = "Map" ->
            IF too_many_dimensions(dimensions)
            THEN "too many dimensions (limited to 2D structure)"
            ELSE IF ~map_key_allowed(t[2])
            THEN "key in map must be String, FixedString(n), or integer"
            ELSE LET rk == validate(t[2], dimensions + 1)
                 IN  IF rk # Ok THEN rk
                     ELSE IF ~map_value_allowed(t[3])
                     THEN "value in map must be String, FixedString(n), integer, or array"
                     ELSE validate(t[3], dimensions + 1)
      [] OTHER -> Ok

-----------------------------------------------------------------------------
(* Text: characters, trimming, numbers *)

\* char::is_alphabetic on the characters the model uses
Letters ==
    {"A", "B", "C", "D", "E", "F", "G", "H", "I", "J", "K", "L", "M",
     "N", "O", "P", "Q", "R", "S", "T", "U", "V", "W", "X", "Y", "Z",
     "a", "b", "c", "d", "e", "f", "g", "h", "i", "j", "k", "l", "m",
     "n", "o", "p", "q", "r", "s", "t", "u", "v", "w", "x", "y", "z"}

\* char::is_numeric on the characters the model uses
Digits == {"0", "1", "2", "3", "4", "5", "6", "7", "8", "9"}

\* char::is_whitespace on the characters the model uses
Whitespace == {" ", "\t"}

DigitChar == <<"0", "1", "2", "3", "4", "5", "6", "7", "8", "9">>

RECURSIVE DigitsOf(_)
\* format!("{}", n) of a usize
DigitsOf(n) ==
    IF n < 10 THEN <<DigitChar[n + 1]>>
    ELSE DigitsOf(n \div 10) \o <<DigitChar[(n % 10) + 1]>>

DigitValue(c) == CHOOSE d \in 0..9 : DigitChar[d + 1] = c

RECURSIVE trim_start(_), trim_end(_)
trim_start(s) ==
    IF s # <<>> /\ s[1] \in Whitespace THEN trim_start(Tail(s)) ELSE s

trim_end(s) ==
    IF s # <<>> /\ s[Len(s)] \in Whitespace
    THEN trim_end(SubSeq(s, 1, Len(s) - 1)) ELSE s

\* str::trim
trim(s) == trim_end(trim_start(s))

Err(msg) == <<"Err", msg>>
Panic == <<"Panic">>

RECURSIVE digits_value(_, _, _)
digits_value(s, i, acc) ==
    IF i > Len(s) THEN <<"Ok", acc>>
    ELSE IF s[i] \notin Digits THEN Err("invalid digit found in string")
    ELSE digits_value(s, i + 1, acc * 10 + DigitValue(s[i]))

\* str::parse::<usize>: an optional '+', then one or more decimal digits.
\* The texts of the model are short, so the value never exceeds usize::MAX.
parse_usize(s) ==
    IF s = <<>> THEN Err("cannot parse integer from empty string")
    ELSE IF s = <<"+">> THEN Err("invalid digit found in string")
    ELSE IF s[1] = "+" THEN digits_value(Tail(s), 1, 0)
    ELSE digits_value(s, 1, 0)

\* Display of chrono_tz::Tz: the zone's IANA name
TzName ==
    (UTC :> <<"U", "T", "C">>)
    @@ (Tokyo :> <<"A", "s", "i", "a", "/", "T", "o", "k", "y", "o">>)

\* FromStr of chrono_tz::Tz: the zone of that name, or an error
parse_tz(s) ==
    IF \E tz \in Tz : TzName[tz] = s
    THEN <<"Ok", CHOOSE tz \in Tz : TzName[tz] = s>>
    ELSE Err("failed to parse timezone")

\* the textual names of the constructors, as matched by from_str and
\* written by to_string
NameOf ==
    [
      Int8 |-> <<"I", "n", "t", "8">>,
      Int16 |-> <<"I", "n", "t", "1", "6">>,
      Int32 |-> <<"I", "n", "t", "3", "2">>,
      Int64 |-> <<"I", "n", "t", "6", "4">>,
      Int128 |-> <<"I", "n", "t", "1", "2", "8">>,
      Int256 |-> <<"I", "n", "t", "2", "5", "6">>,
      UInt8 |-> <<"U", "I", "n", "t", "8">>,
      UInt16 |-> <<"U", "I", "n", "t", "1", "6">>,
      UInt32 |-> <<"U", "I", "n", "t", "3", "2">>,
      UInt64 |-> <<"U", "I", "n", "t", "6", "4">>,
      UInt128 |-> <<"U", "I", "n", "t", "1", "2", "8">>,
      UInt256 |-> <<"U", "I", "n", "t", "2", "5", "6">>,
      Float32 |-> <<"F", "l", "o", "a", "t", "3", "2">>,
      Float64 |-> <<"F", "l", "o", "a", "t", "6", "4">>,
      String |-> <<"S", "t", "r", "i", "n", "g">>,
      Date |-> <<"D", "a", "t", "e">>,
      DateTime |-> <<"D", "a", "t", "e", "T", "i", "m", "e">>,
      Decimal |-> <<"D", "e", "c", "i", "m", "a", "l">>,
      Decimal32 |-> <<"D", "e", "c", "i", "m", "a", "l", "3", "2">>,
      Decimal64 |-> <<"D", "e", "c", "i", "m", "a", "l", "6", "4">>,
      Decimal128 |-> <<"D", "e", "c", "i", "m", "a", "l", "1", "2", "8">>,
      Decimal256 |-> <<"D", "e", "c", "i", "m", "a", "l", "2", "5", "6">>,
      FixedString |-> <<"F", "i", "x", "e", "d", "S", "t", "r", "i", "n", "g">>,
      DateTime64 |-> <<"D", "a", "t", "e", "T", "i", "m", "e", "6", "4">>,
      Enum8 |-> <<"E", "n", "u", "m", "8">>,
      Enum16 |-> <<"E", "n", "u", "m", "1", "6">>,
      LowCardinality |-> <<"L", "o", "w", "C", "a", "r", "d", "i", "n", "a", "l", "i", "t", "y">>,
      Array |-> <<"A", "r", "r", "a", "y">>,
      Nested |-> <<"N", "e", "s", "t", "e", "d">>,
      Tuple |-> <<"T", "u", "p", "l", "e">>,
      Nullable |-> <<"N", "u", "l", "l", "a", "b", "l", "e">>,
      Map |-> <<"M", "a", "p">>,
      Uuid |-> <<"U", "U", "I", "D">>,
      Ipv4 |-> <<"I", "P", "v", "4">>,
      Ipv6 |-> <<"I", "P", "v", "6">> ]

-----------------------------------------------------------------------------
(* impl ToString for Type *)

RECURSIVE to_string(_), join_types(_, _), join_entries(_, _)

\* items.iter().map(|(name, value)| format!("{}={}", name, value)).join(",")
join_entries(items, i) ==
    IF i > Len(items) THEN <<>>
    ELSE (IF i > 1 THEN <<",">> ELSE <<>>)
         \o items[i][1] \o <<"=">> \o DigitsOf(items[i][2])
         \o join_entries(items, i + 1)

\* items.iter().map(|x| x.to_string()).join(",")
join_types(items, i) ==
    IF i > Len(items) THEN <<>>
    ELSE (IF i > 1 THEN <<",">> ELSE <<>>)
         \o to_string(items[i]) \o join_types(items, i + 1)

to_string(t) ==
    CASE t[1] \in ScalarNames -> NameOf[t[1]]
      [] t[1] \in {"Decimal32", "Decimal64", "Decimal128", "Decimal256", "FixedString"} ->
            NameOf[t[1]] \o <<"(">> \o DigitsOf(t[2]) \o <<")">>
      [] t[1] = "DateTime" ->
            NameOf.DateTime \o <<"(", "'">> \o TzName[t[2]] \o <<"'", ")">>
      [] t[1] = "DateTime64" ->
            NameOf.DateTime64 \o <<"(">> \o DigitsOf(t[2]) \o <<",", "'">>
            \o TzName[t[3]] \o <<"'", ")">>
      [] t[1] \in {"Enum8", "Enum16"} ->
            NameOf[t[1]] \o <<"(">> \o join_entries(t[2], 1) \o <<")">>
      [] t[1] \in {"LowCardinality", "Array", "Nullable"} ->
            NameOf[t[1]] \o <<"(">> \o to_string(t[2]) \o <<")">>
      [] t[1] = "Tuple" ->
            NameOf.Tuple \o <<"(">> \o join_types(t[2], 1) \o <<")">>
      [] t[1] = "Map" ->
            NameOf.Map \o <<"(">> \o to_string(t[2]) \o <<",">>
            \o to_string(t[3]) \o <<")">>

-----------------------------------------------------------------------------
(* eat_identifier, parse_args, impl FromStr for Type *)
(* A result is <<"Ok", x>>, <<"Err", message>> or <<"Panic">> (the thread    *)
(* unwinds: todo!(), an arithmetic overflow check, a slice out of range).   *)

RECURSIVE identifier_end(_, _)
\* the first position (from 1) whose character does not continue an identifier
identifier_end(input, i) ==
    IF i > Len(input) THEN i
    ELSE IF \/ input[i] \in Letters
            \/ input[i] = "_"
            \/ input[i] = "$"
            \/ (i > 1 /\ input[i] \in Digits)
         THEN identifier_end(input, i + 1)
         ELSE i

eat_identifier(input) ==
    LET e == identifier_end(input, 1)
    IN  <<SubSeq(input, 1, e - 1), SubSeq(input, e, Len(input))>>

RECURSIVE parse_args_scan(_, _, _, _, _)
\* the for loop of parse_args.  in_parens is a usize: the statement
\* in_parens -= 1 at 0 panics when overflow checks are compiled in and wraps
\* to usize::MAX otherwise; the wrapped counter is kept as the representative
\* of its residue nearest to 0 (-1 for usize::MAX), which agrees with the
\* machine value on += 1, -= 1 and == 0 for texts shorter than 2^31.
\* last_start counts from 1.
parse_args_scan(input, i, out, in_parens, last_start) ==
    IF i > Len(input) THEN <<"Ok", out, in_parens, last_start>>
    ELSE CASE input[i] = "," ->
                IF in_parens = 0
                THEN parse_args_scan(input, i + 1,
                        Append(out, trim(SubSeq(input, last_start, i - 1))),
                        in_parens, i + 1)
                ELSE parse_args_scan(input, i + 1, out, in_parens, last_start)
           [] input[i] = "(" ->
                parse_args_scan(input, i + 1, out, in_parens + 1, last_start)
           [] input[i] = ")" ->
                IF in_parens = 0 /\ build = "debug"
                THEN Panic
                ELSE parse_args_scan(input, i + 1, out, in_parens - 1, last_start)
           [] OTHER -> parse_args_scan(input, i + 1, out, in_parens, last_start)

parse_args(input0) ==
    IF input0 = <<>> \/ input0[1] # "(" \/ input0[Len(input0)] # ")"
    THEN Err("malformed arguments to type")
    ELSE LET input == trim(SubSeq(input0, 2, Len(input0) - 1))
             scan == parse_args_scan(input, 1, <<>>, 0, 1)
         IN  IF scan[1] # "Ok" THEN scan
             ELSE IF scan[3] # 0 THEN Err("mismatched parenthesis")
             ELSE IF scan[4] # Len(input) + 1
             THEN <<"Ok", Append(scan[2], trim(SubSeq(input, scan[4], Len(input))))>>
             ELSE <<"Ok", scan[2]>>

\* !arg.starts_with('\'') || !arg.ends_with('\'')
not_quoted(arg) ==
    arg = <<>> \/ arg[1] # "'" \/ arg[Len(arg)] # "'"

\* mutant: the quoted name is ignored and UTC is returned
parse_quoted_tz_utc(arg) == <<"Ok", UTC>>

\* arg[1..arg.len() - 1].parse::<Tz>(): the slice panics when arg is a lone
\* quote (range 1..0)
parse_quoted_tz(arg) ==
    IF Len(arg) < 2 THEN Panic
    ELSE LET r == parse_tz(SubSeq(arg, 2, Len(arg) - 1))
         IN  IF r[1] = "Ok" THEN r ELSE Err("failed to parse timezone")

\* mutant: the second rung of the ladder compares against 19
decimal_of_precision_19(p, s) ==
    IF p <= 9 THEN <<"Ok", Decimal32(s)>>
    ELSE IF p <= 19 THEN <<"Ok", Decimal64(s)>>
    ELSE IF p <= 38 THEN <<"Ok", Decimal128(s)>>
    ELSE IF p <= 76 THEN <<"Ok", Decimal256(s)>>
    ELSE Err("bad decimal spec")

\* the ladder that picks the width of Decimal(p, s)
decimal_of_precision(p, s) ==
    IF p <= 9 THEN <<"Ok", Decimal32(s)>>
    ELSE IF p <= 18 THEN <<"Ok", Decimal64(s)>>
    ELSE IF p <= 38 THEN <<"Ok", Decimal128(s)>>
    ELSE IF p <= 76 THEN <<"Ok", Decimal256(s)>>
    ELSE Err("bad decimal spec")

\* the names accepted without an argument list
BareNames == ScalarNames \cup {"DateTime"}

RECURSIVE from_str(_), from_str_args(_, _), from_str_members(_, _, _)

\* the Tuple arm: for arg in args { inner.push(arg.trim().parse()?); }
from_str_members(args, i, inner) ==
    IF i > Len(args) THEN <<"Ok", Tuple(inner)>>
    ELSE LET r == from_str(trim(args[i]))
         IN  IF r[1] # "Ok" THEN r
             ELSE from_str_members(args, i + 1, Append(inner, r[2]))

\* the match on ident when an argument list follows
from_str_args(ident, args) ==
    CASE ident = NameOf.Decimal ->
            IF Len(args) # 2 THEN Err("bad arg count")
            ELSE LET p == parse_usize(args[1])
                     s == parse_usize(args[2])
                 IN  IF p[1] # "Ok" THEN p
                     ELSE IF s[1] # "Ok" THEN s
                     ELSE decimal_of_precision(p[2], s[2])
      [] \E n \in {"Decimal32", "Decimal64", "Decimal128", "Decimal256", "FixedString"} :
            ident = NameOf[n] ->
            LET n == CHOOSE n \in {"Decimal32", "Decimal64", "Decimal128",
                                   "Decimal256", "FixedString"} : ident = NameOf[n]
            IN  IF Len(args) # 1 THEN Err("bad arg count")
                ELSE LET v == parse_usize(args[1])
                     IN  IF v[1] # "Ok" THEN v ELSE <<"Ok", <<n, v[2]>> >>
      [] ident = NameOf.DateTime ->
            IF Len(args) # 1 THEN Err("bad arg count")
            ELSE IF not_quoted(args[1]) THEN Err("failed to parse timezone")
            ELSE LET tz == parse_quoted_tz(args[1])
                 IN  IF tz[1] # "Ok" THEN tz ELSE <<"Ok", DateTime(tz[2])>>
      [] ident = NameOf.DateTime64 ->
            IF Len(args) = 2
            THEN IF not_quoted(args[2])
                 THEN Err("failed to parse timezone")
                 ELSE LET precision == parse_usize(args[1])
                          tz == parse_quoted_tz(args[2])
                      IN  IF precision[1] # "Ok" THEN precision
                          ELSE IF tz[1] # "Ok" THEN tz
                          ELSE <<"Ok", DateTime64(precision[2], tz[2])>>
            ELSE IF Len(args) = 1
            THEN LET precision == parse_usize(args[1])
                 IN  IF precision[1] # "Ok" THEN precision
                     ELSE <<"Ok", DateTime64(precision[2], UTC)>>
            ELSE Err("bad arg count")
      [] ident \in {NameOf.Enum8, NameOf.Enum16, NameOf.Nested} -> Panic   \* todo!()
      [] \E n \in {"LowCardinality", "Array", "Nullable"} : ident = NameOf[n] ->
            LET n == CHOOSE n \in {"LowCardinality", "Array", "Nullable"} : ident = NameOf[n]
            IN  IF Len(args) # 1 THEN Err("bad arg count")
                ELSE LET r == from_str(args[1])
                     IN  IF r[1] # "Ok" THEN r ELSE <<"Ok", <<n, r[2]>> >>
      [] ident = NameOf.Tuple -> from_str_members(args, 1, <<>>)
      [] ident = NameOf.Map ->
            IF Len(args) # 2 THEN Err("bad arg count")
            ELSE LET k == from_str(args[1])
                     v == from_str(args[2])
                 IN  IF k[1] # "Ok" THEN k
                     ELSE IF v[1] # "Ok" THEN v
                     ELSE <<"Ok", Map(k[2], v[2])>>
      [] OTHER -> Err("invalid type with arguments")

from_str(s) ==
    LET eaten == eat_identifier(s)
        ident == eaten[1]
        following == trim(eaten[2])
    IN  IF ident = <<>> THEN Err("invalid empty identifier for type")
        ELSE IF following # <<>>
        THEN LET args == parse_args(following)
             IN  IF args[1] # "Ok" THEN args ELSE from_str_args(ident, args[2])
        ELSE IF \E n \in BareNames : ident = NameOf[n]
        THEN LET n == CHOOSE n \in BareNames : ident = NameOf[n]
             IN  IF n = "DateTime" THEN <<"Ok", DateTime(UTC)>> ELSE <<"Ok", <<n>> >>
        ELSE Err("invalid type name")

-----------------------------------------------------------------------------
(* Type::validate_value, Type::inner_validate_value *)
(* A Value is a tuple whose first element is the variant's name:            *)
(*   <<"Int8", n>>, <<"String", chars>>, <<"Decimal32", scale, n>>,         *)
(*   <<"DateTime", tz, seconds>>, <<"DateTime64", tz, precision, ticks>>,   *)
(*   <<"Enum8", index>>, <<"Array", values>>, <<"Tuple", values>>,          *)
(*   <<"Map", keys, values>>, <<"Null">>.                                   *)

Null == <<"Null">>

\* the arms whose pattern is the same variant name on both sides
SameNameArms ==
    IntegerNames \cup {"Float32", "Float64", "String", "Uuid", "Date", "Ipv4", "Ipv6"}

\* mutant: the precision of a DateTime64 value is not compared
datetime64_matches_tz_only(t, v) == t[3] = v[2]

\* the DateTime64 arm: tz1 == tz2 && precision1 == precision2
datetime64_matches(t, v) == t[3] = v[2] /\ t[2] = v[3]

Min2(a, b) == IF a <= b THEN a ELSE b

RECURSIVE inner_validate_value(_, _)
inner_validate_value(t, v) ==
    CASE t[1] \in SameNameArms /\ v[1] = t[1] -> TRUE
      [] t[1] = "FixedString" /\ v[1] = "String" -> TRUE
      [] t[1] \in {"Decimal32", "Decimal64", "Decimal128", "Decimal256"} /\ v[1] = t[1] ->
            t[2] = v[2]
      [] t[1] = "DateTime" /\ v[1] = "DateTime" -> t[2] = v[2]
      [] t[1] = "DateTime64" /\ v[1] = "DateTime64" -> datetime64_matches(t, v)
      [] t[1] \in {"Enum8", "Enum16"} /\ v[1] = t[1] ->
            \E i \in 1..Len(t[2]) : t[2][i][2] = v[2]
      [] t[1] = "LowCardinality" -> inner_validate_value(t[2], v)
      [] t[1] = "Array" /\ v[1] = "Array" ->
            \A i \in 1..Len(v[2]) : inner_validate_value(t[2], v[2][i])
      [] t[1] = "Tuple" /\ v[1] = "Tuple" ->
            \A i \in 1..Min2(Len(t[2]), Len(v[2])) : inner_validate_value(t[2][i], v[2][i])
      [] t[1] = "Nullable" -> v = Null \/ inner_validate_value(t[2], v)
      [] t[1] = "Map" /\ v[1] = "Map" ->
            /\ \A i \in 1..Len(v[2]) : inner_validate_value(t[2], v[2][i])
            /\ \A i \in 1..Len(v[3]) : inner_validate_value(t[3], v[3][i])
      [] OTHER -> FALSE

validate_value(t, v) ==
    LET r == validate(t, 0)
    IN  IF r # Ok THEN r
        ELSE IF ~inner_validate_value(t, v) THEN "could not assign value to type"
        ELSE Ok

-----------------------------------------------------------------------------
(* Type::default_value *)

RECURSIVE default_value(_)
default_value(t) ==
    CASE t[1] \in IntegerNames \cup {"Float32", "Float64", "Uuid", "Date", "Ipv4", "Ipv6"} ->
            <<t[1], 0>>
      [] t[1] \in {"Decimal32", "Decimal64", "Decimal128", "Decimal256"} -> <<t[1], t[2], 0>>
      [] t[1] \in {"String", "FixedString"} -> <<"String", <<>> >>
      [] t[1] = "DateTime" -> <<"DateTime", t[2], 0>>
      [] t[1] = "DateTime64" -> <<"DateTime64", t[3], t[2], 0>>
      [] t[1] \in {"Enum8", "Enum16"} -> <<t[1], 0>>
      [] t[1] = "LowCardinality" -> default_value(t[2])
      [] t[1] = "Array" -> <<"Array", <<>> >>
      [] t[1] = "Tuple" -> <<"Tuple", [i \in 1..Len(t[2]) |-> default_value(t[2][i])]>>
      [] t[1] = "Nullable" -> Null
      [] t[1] = "Map" -> <<"Map", <<>>, <<>> >>

-----------------------------------------------------------------------------
(* The types the operations are applied to *)

\* Enum entry lists as built programmatically: Vec<(String, number)>
EnumLists ==
    { <<>>,
      << << <<"a">>, 1 >> >>,
      << << <<"a">>, 0 >>, << <<"b">>, 2 >> >> }

LeafTypes ==
    { <<n>> : n \in ScalarNames }
    \cup { <<d, s>> : d \in {"Decimal32", "Decimal64", "Decimal128", "Decimal256"},
                      s \in 0..MaxScale }
    \cup { FixedString(n) : n \in 0..MaxFixed }
    \cup { DateTime(tz) : tz \in Tz }
    \cup { DateTime64(p, tz) : p \in 0..MaxScale, tz \in Tz }
    \cup { Enum8(e) : e \in EnumLists }
    \cup { Enum16(e) : e \in EnumLists }

\* one leaf of every constructor, for use under the containers
MidLeaves ==
    { <<n>> : n \in ScalarNames }
    \cup { Decimal32(0), Decimal32(1), Decimal64(18), Decimal128(38), Decimal256(9),
           FixedString(2), DateTime(UTC), DateTime64(3, Tokyo),
           Enum8(<< << <<"a">>, 1 >> >>), Enum16(<<>>) }

Wrap1(S) ==
    { Array(x) : x \in S } \cup { Nullable(x) : x \in S }
    \cup { LowCardinality(x) : x \in S }

MapArgs ==
    MidLeaves \cup { Array(Int8), Array(Decimal32(0)), Nullable(Int8),
                     LowCardinality(String), Tuple(<<Int8>>), Map(String, Int8) }

ChainLeaves == { Int8, Float32 }

RECURSIVE Chains(_)
Chains(n) ==
    IF n = 0 THEN ChainLeaves
    ELSE LET prev == Chains(n - 1)
         IN  prev \cup Wrap1(prev)
                  \cup { Tuple(<<x>>) : x \in prev }
                  \cup { Map(String, x) : x \in prev }

TupleMembers == { Int8, Decimal32(0), Array(Int8), Enum8(<< << <<"a">>, 1 >> >>) }

RECURSIVE SeqsUpTo(_, _)
SeqsUpTo(S, n) ==
    IF n = 0 THEN { <<>> }
    ELSE LET prev == SeqsUpTo(S, n - 1)
         IN  prev \cup { Append(s, x) : s \in { p \in prev : Len(p) = n - 1 }, x \in S }

TypeUniverse ==
    LeafTypes
    \cup Wrap1(MidLeaves)
    \cup Wrap1(Wrap1(MidLeaves))
    \cup { Map(k, v) : k \in MapArgs, v \in MapArgs }
    \cup { Tuple(ts) : ts \in SeqsUpTo(TupleMembers, MaxArity) }
    \cup Chains(MaxChain)

-----------------------------------------------------------------------------
(* Specification: Type::validate applied to a type *)

InitValidate ==
    /\ build = "debug"
    /\ ty \in TypeUniverse
    /\ text = None /\ parsed = None /\ result = None
    /\ value = None /\ vresult = None
    /\ pc = "start"
    /\ NoCodec /\ NoRow

Validate ==
    /\ pc = "start"
    /\ result' = validate(ty, 0)
    /\ pc' = "validated"
    /\ UNCHANGED <<build, ty, text, parsed, value, vresult>>
    /\ UNCHANGED <<codecVars, rowVars>>

NextValidate == Validate

SpecValidate == InitValidate /\ [][NextValidate]_vars

-----------------------------------------------------------------------------
(* Specification: a type is printed and the text parsed back *)

Builds == {"debug", "release"}

InitRoundTrip ==
    /\ build \in Builds
    /\ ty \in TypeUniverse
    /\ text = None /\ parsed = None /\ result = None
    /\ value = None /\ vresult = None
    /\ pc = "start"
    /\ NoCodec /\ NoRow

Format ==
    /\ pc = "start"
    /\ text' = to_string(ty)
    /\ pc' = "printed"
    /\ UNCHANGED <<build, ty, parsed, result, value, vresult>>
    /\ UNCHANGED <<codecVars, rowVars>>

Reparse ==
    /\ pc = "printed"
    /\ parsed' = from_str(text)
    /\ pc' = "parsed"
    /\ UNCHANGED <<build, ty, text, result, value, vresult>>
    /\ UNCHANGED <<codecVars, rowVars>>

NextRoundTrip == Format \/ Reparse

SpecRoundTrip == InitRoundTrip /\ [][NextRoundTrip]_vars

-----------------------------------------------------------------------------
(* Specification: Type::from_str applied to a text *)

MaxPrecision == 78          \* Decimal(p, s) is tried for p in 0..MaxPrecision
DecimalScales == {0, 4, 40}
Pads == { <<>>, <<" ">> }   \* whitespace put around an argument

\* "Decimal(" pad p pad "," pad s pad ")"
DecimalText(p, s, pad) ==
    NameOf.Decimal \o <<"(">> \o pad[1] \o DigitsOf(p) \o pad[2] \o <<",">>
    \o pad[3] \o DigitsOf(s) \o pad[4] \o <<")">>

\* <<text, p, s>> for every Decimal(p, s) text tried
DecimalCases ==
    { <<DecimalText(p, s, pad), p, s>> :
        p \in 0..MaxPrecision, s \in DecimalScales,
        pad \in Pads \X Pads \X Pads \X Pads }

OtherTexts ==
    { NameOf.Int8,
      NameOf.DateTime,
      NameOf.DateTime64 \o <<"(", "6", ")">>,
      NameOf.Nullable \o <<"(">> \o NameOf.LowCardinality \o <<"(">>
          \o NameOf.String \o <<")", ")">>,
      NameOf.Decimal \o <<"(", "2", "0", ")">>,
      NameOf.Decimal \o <<"(", "x", ",", "4", ")">>,
      NameOf.Decimal \o <<"(", "+", "2", "0", ",", "0", "4", ")">>,
      NameOf.Decimal \o <<" ", "(", "2", "0", ",", "\t", "4", ")">> }

Quoted(tz) == <<"'">> \o TzName[tz] \o <<"'">>

\* <<text, shape, p, tz>> for the DateTime / DateTime64 texts tried:
\* DateTime; DateTime64(p); DateTime('tz'); DateTime64(p, 'tz')
TzCases ==
    { <<NameOf.DateTime, "DateTime", 0, UTC>> }
    \cup { <<NameOf.DateTime64 \o <<"(">> \o DigitsOf(p) \o <<")">>, "DateTime64(p)", p, UTC>> :
             p \in 0..MaxPrecision }
    \cup { <<NameOf.DateTime \o <<"(">> \o pad \o Quoted(tz) \o pad \o <<")">>,
             "DateTime(tz)", 0, tz>> : tz \in Tz, pad \in Pads }
    \cup { <<NameOf.DateTime64 \o <<"(">> \o DigitsOf(p) \o <<",">> \o pad \o Quoted(tz)
             \o <<")">>, "DateTime64(p,tz)", p, tz>> :
             p \in 0..MaxPrecision, tz \in Tz, pad \in Pads }

\* identifiers that are not constructors, or constructors missing their argument list
UnknownNameTexts ==
    { \* Foo
      <<"F", "o", "o">>,
      \* int8
      <<"i", "n", "t", "8">>,
      \* Int9
      <<"I", "n", "t", "9">>,
      \* Bool
      <<"B", "o", "o", "l">>,
      \* Foo(Int8)
      <<"F", "o", "o", "(", "I", "n", "t", "8", ")">>,
      \* Array
      <<"A", "r", "r", "a", "y">>,
      \* Map
      <<"M", "a", "p">>,
      \* Decimal32
      <<"D", "e", "c", "i", "m", "a", "l", "3", "2">>,
      \* Enum8
      <<"E", "n", "u", "m", "8">> }

\* a scalar name followed by an argument list
ScalarWithArgsTexts ==
    { \* Int8()
      <<"I", "n", "t", "8", "(", ")">>,
      \* String(5)
      <<"S", "t", "r", "i", "n", "g", "(", "5", ")">>,
      \* UUID(1)
      <<"U", "U", "I", "D", "(", "1", ")">>,
      \* Date()
      <<"D", "a", "t", "e", "(", ")">>,
      \* Float32(1,2)
      <<"F", "l", "o", "a", "t", "3", "2", "(", "1", ",", "2", ")">>,
      \* IPv4( )
      <<"I", "P", "v", "4", "(", " ", ")">> }

\* a wrong number of comma-separated arguments
BadArityTexts ==
    { \* Decimal()
      <<"D", "e", "c", "i", "m", "a", "l", "(", ")">>,
      \* Decimal(1)
      <<"D", "e", "c", "i", "m", "a", "l", "(", "1", ")">>,
      \* Decimal(1,2,3)
      <<"D", "e", "c", "i", "m", "a", "l", "(", "1", ",", "2", ",", "3", ")">>,
      \* Decimal32()
      <<"D", "e", "c", "i", "m", "a", "l", "3", "2", "(", ")">>,
      \* Decimal32(1,2)
      <<"D", "e", "c", "i", "m", "a", "l", "3", "2", "(", "1", ",", "2", ")">>,
      \* Decimal64(1,2)
      <<"D", "e", "c", "i", "m", "a", "l", "6", "4", "(", "1", ",", "2", ")">>,
      \* Decimal128()
      <<"D", "e", "c", "i", "m", "a", "l", "1", "2", "8", "(", ")">>,
      \* Decimal256(1,2)
      <<"D", "e", "c", "i", "m", "a", "l", "2", "5", "6", "(", "1", ",", "2", ")">>,
      \* FixedString()
      <<"F", "i", "x", "e", "d", "S", "t", "r", "i", "n", "g", "(", ")">>,
      \* FixedString(1,2)
      <<"F", "i", "x", "e", "d", "S", "t", "r", "i", "n", "g", "(", "1", ",", "2", ")">>,
      \* LowCardinality()
      <<"L", "o", "w", "C", "a", "r", "d", "i", "n", "a", "l", "i", "t", "y", "(", ")">>,
      \* LowCardinality(String,String)
      <<"L", "o", "w", "C", "a", "r", "d", "i", "n", "a", "l", "i", "t", "y", "(", "S", "t", "r", "i", "n", "g", ",", "S", "t", "r", "i", "n", "g", ")">>,
      \* Array()
      <<"A", "r", "r", "a", "y", "(", ")">>,
      \* Array(Int8,Int8)
      <<"A", "r", "r", "a", "y", "(", "I", "n", "t", "8", ",", "I", "n", "t", "8", ")">>,
      \* Nullable()
      <<"N", "u", "l", "l", "a", "b", "l", "e", "(", ")">>,
      \* Nullable(Int8,Int8)
      <<"N", "u", "l", "l", "a", "b", "l", "e", "(", "I", "n", "t", "8", ",", "I", "n", "t", "8", ")">>,
      \* DateTime()
      <<"D", "a", "t", "e", "T", "i", "m", "e", "(", ")">>,
      \* DateTime('UTC','UTC')
      <<"D", "a", "t", "e", "T", "i", "m", "e", "(", "'", "U", "T", "C", "'", ",", "'", "U", "T", "C", "'", ")">>,
      \* DateTime64()
      <<"D", "a", "t", "e", "T", "i", "m", "e", "6", "4", "(", ")">>,
      \* DateTime64(3,'UTC',1)
      <<"D", "a", "t", "e", "T", "i", "m", "e", "6", "4", "(", "3", ",", "'", "U", "T", "C", "'", ",", "1", ")">>,
      \* Map()
      <<"M", "a", "p", "(", ")">>,
      \* Map(String)
      <<"M", "a", "p", "(", "S", "t", "r", "i", "n", "g", ")">>,
      \* Map(String,Int8,Int8)
      <<"M", "a", "p", "(", "S", "t", "r", "i", "n", "g", ",", "I", "n", "t", "8", ",", "I", "n", "t", "8", ")">>,
      \* Array(,Int8)
      <<"A", "r", "r", "a", "y", "(", ",", "I", "n", "t", "8", ")">>,
      \* Map(String,,Int8)
      <<"M", "a", "p", "(", "S", "t", "r", "i", "n", "g", ",", ",", "I", "n", "t", "8", ")">>,
      \* Map(String,Array(Int8,Int8))
      <<"M", "a", "p", "(", "S", "t", "r", "i", "n", "g", ",", "A", "r", "r", "a", "y", "(", "I", "n", "t", "8", ",", "I", "n", "t", "8", ")", ")">> }

\* a wrong number of arguments, the last segment being empty
TrailingCommaTexts ==
    { \* Array(Int8,)
      <<"A", "r", "r", "a", "y", "(", "I", "n", "t", "8", ",", ")">>,
      \* Map(String,Int8,)
      <<"M", "a", "p", "(", "S", "t", "r", "i", "n", "g", ",", "I", "n", "t", "8", ",", ")">>,
      \* Nullable(Int8,)
      <<"N", "u", "l", "l", "a", "b", "l", "e", "(", "I", "n", "t", "8", ",", ")">>,
      \* LowCardinality(String,)
      <<"L", "o", "w", "C", "a", "r", "d", "i", "n", "a", "l", "i", "t", "y", "(", "S", "t", "r", "i", "n", "g", ",", ")">>,
      \* Decimal32(5,)
      <<"D", "e", "c", "i", "m", "a", "l", "3", "2", "(", "5", ",", ")">>,
      \* FixedString(3,)
      <<"F", "i", "x", "e", "d", "S", "t", "r", "i", "n", "g", "(", "3", ",", ")">>,
      \* Decimal(20,4,)
      <<"D", "e", "c", "i", "m", "a", "l", "(", "2", "0", ",", "4", ",", ")">>,
      \* DateTime('UTC',)
      <<"D", "a", "t", "e", "T", "i", "m", "e", "(", "'", "U", "T", "C", "'", ",", ")">>,
      \* DateTime64(3,'UTC',)
      <<"D", "a", "t", "e", "T", "i", "m", "e", "6", "4", "(", "3", ",", "'", "U", "T", "C", "'", ",", ")">>,
      \* Array(Array(Int8,),)
      <<"A", "r", "r", "a", "y", "(", "A", "r", "r", "a", "y", "(", "I", "n", "t", "8", ",", ")", ",", ")">> }

\* argument lists whose parentheses are unbalanced or wrongly ordered
MismatchedParenTexts ==
    { \* Array((Int8)
      <<"A", "r", "r", "a", "y", "(", "(", "I", "n", "t", "8", ")">>,
      \* Array(Int8))
      <<"A", "r", "r", "a", "y", "(", "I", "n", "t", "8", ")", ")">>,
      \* Array()a()
      <<"A", "r", "r", "a", "y", "(", ")", "a", "(", ")">>,
      \* Tuple(Int8)(Int8)
      <<"T", "u", "p", "l", "e", "(", "I", "n", "t", "8", ")", "(", "I", "n", "t", "8", ")">>,
      \* Map(String,(Int8)
      <<"M", "a", "p", "(", "S", "t", "r", "i", "n", "g", ",", "(", "I", "n", "t", "8", ")">>,
      \* Tuple((Int8,Int8)
      <<"T", "u", "p", "l", "e", "(", "(", "I", "n", "t", "8", ",", "I", "n", "t", "8", ")">>,
      \* Nullable(Int8)))
      <<"N", "u", "l", "l", "a", "b", "l", "e", "(", "I", "n", "t", "8", ")", ")", ")">>,
      \* Array(Tuple(Int8)))
      <<"A", "r", "r", "a", "y", "(", "T", "u", "p", "l", "e", "(", "I", "n", "t", "8", ")", ")", ")">>,
      \* Array(Array(Int8)
      <<"A", "r", "r", "a", "y", "(", "A", "r", "r", "a", "y", "(", "I", "n", "t", "8", ")">> }

\* a timezone argument that is not a quoted IANA name
BadTimezoneTexts ==
    { \* DateTime(UTC)
      <<"D", "a", "t", "e", "T", "i", "m", "e", "(", "U", "T", "C", ")">>,
      \* DateTime('UTC)
      <<"D", "a", "t", "e", "T", "i", "m", "e", "(", "'", "U", "T", "C", ")">>,
      \* DateTime(UTC')
      <<"D", "a", "t", "e", "T", "i", "m", "e", "(", "U", "T", "C", "'", ")">>,
      \* DateTime('Mars')
      <<"D", "a", "t", "e", "T", "i", "m", "e", "(", "'", "M", "a", "r", "s", "'", ")">>,
      \* DateTime('')
      <<"D", "a", "t", "e", "T", "i", "m", "e", "(", "'", "'", ")">>,
      \* DateTime(')
      <<"D", "a", "t", "e", "T", "i", "m", "e", "(", "'", ")">>,
      \* DateTime64(3,UTC)
      <<"D", "a", "t", "e", "T", "i", "m", "e", "6", "4", "(", "3", ",", "U", "T", "C", ")">>,
      \* DateTime64(3,'UTC)
      <<"D", "a", "t", "e", "T", "i", "m", "e", "6", "4", "(", "3", ",", "'", "U", "T", "C", ")">>,
      \* DateTime64(3,UTC')
      <<"D", "a", "t", "e", "T", "i", "m", "e", "6", "4", "(", "3", ",", "U", "T", "C", "'", ")">>,
      \* DateTime64(3,'Mars')
      <<"D", "a", "t", "e", "T", "i", "m", "e", "6", "4", "(", "3", ",", "'", "M", "a", "r", "s", "'", ")">>,
      \* DateTime64(3,'')
      <<"D", "a", "t", "e", "T", "i", "m", "e", "6", "4", "(", "3", ",", "'", "'", ")">>,
      \* DateTime64(3,')
      <<"D", "a", "t", "e", "T", "i", "m", "e", "6", "4", "(", "3", ",", "'", ")">>,
      \* DateTime64(x,')
      <<"D", "a", "t", "e", "T", "i", "m", "e", "6", "4", "(", "x", ",", "'", ")">>,
      \* DateTime64(3, ' )
      <<"D", "a", "t", "e", "T", "i", "m", "e", "6", "4", "(", "3", ",", " ", "'", " ", ")">> }

\* Enum8 / Enum16 / Nested with a well-formed argument list
UnsupportedTexts ==
    { \* Enum8('a'=1)
      <<"E", "n", "u", "m", "8", "(", "'", "a", "'", "=", "1", ")">>,
      \* Enum8('a' = 1, 'b' = 2)
      <<"E", "n", "u", "m", "8", "(", "'", "a", "'", " ", "=", " ", "1", ",", " ", "'", "b", "'", " ", "=", " ", "2", ")">>,
      \* Enum8(a=1)
      <<"E", "n", "u", "m", "8", "(", "a", "=", "1", ")">>,
      \* Enum8()
      <<"E", "n", "u", "m", "8", "(", ")">>,
      \* Enum16('a'=1)
      <<"E", "n", "u", "m", "1", "6", "(", "'", "a", "'", "=", "1", ")">>,
      \* Enum16(a=0,b=2)
      <<"E", "n", "u", "m", "1", "6", "(", "a", "=", "0", ",", "b", "=", "2", ")">>,
      \* Nested(a Int8)
      <<"N", "e", "s", "t", "e", "d", "(", "a", " ", "I", "n", "t", "8", ")">>,
      \* Nested(a Int8, b String)
      <<"N", "e", "s", "t", "e", "d", "(", "a", " ", "I", "n", "t", "8", ",", " ", "b", " ", "S", "t", "r", "i", "n", "g", ")">>,
      \* Array(Enum8('a'=1))
      <<"A", "r", "r", "a", "y", "(", "E", "n", "u", "m", "8", "(", "'", "a", "'", "=", "1", ")", ")">> }

TextInputs ==
    { c[1] : c \in DecimalCases } \cup OtherTexts
    \cup { c[1] : c \in TzCases }
    \cup UnknownNameTexts \cup ScalarWithArgsTexts \cup BadArityTexts
    \cup TrailingCommaTexts \cup MismatchedParenTexts \cup BadTimezoneTexts
    \cup UnsupportedTexts

InitParse ==
    /\ build \in Builds
    /\ text \in TextInputs
    /\ ty = None /\ parsed = None /\ result = None
    /\ value = None /\ vresult = None
    /\ pc = "start"
    /\ NoCodec /\ NoRow

FromStr ==
    /\ pc = "start"
    /\ parsed' = from_str(text)
    /\ pc' = "parsed"
    /\ UNCHANGED <<build, ty, text, result, value, vresult>>
    /\ UNCHANGED <<codecVars, rowVars>>

NextParse == FromStr

SpecParse == InitParse /\ [][NextParse]_vars

-----------------------------------------------------------------------------
(* Specification: Type::validate_value applied to a type and a value *)

EnumAB == << << <<"a">>, 0 >>, << <<"b">>, 2 >> >>

ValueTypes ==
    MidLeaves
    \cup { Decimal32(2), Decimal64(1), Decimal128(1), Decimal256(1), Decimal256(10),
           DateTime(Tokyo), DateTime64(3, UTC), DateTime64(6, Tokyo), DateTime64(0, UTC),
           Enum8(EnumAB), Enum16(EnumAB), Enum8(<<>>),
           Nullable(Int8), Nullable(DateTime(UTC)), LowCardinality(String),
           LowCardinality(Nullable(String)), Array(Int8), Array(Nullable(Int8)),
           Tuple(<<>>), Tuple(<<Int8>>), Tuple(<<Int8, String>>),
           Map(String, Int8), Map(String, Array(Int8)) }

ScalarValues ==
    { <<n, 0>> : n \in IntegerNames \cup {"Float32", "Float64", "Uuid", "Date", "Ipv4", "Ipv6"} }
    \cup { <<"String", <<>> >>, <<"String", <<"h", "i">> >>, <<"Int8", 5>>, Null }
    \cup { <<d, sc, 0>> : d \in {"Decimal32", "Decimal64", "Decimal128", "Decimal256"},
                          sc \in {0, 1, 2} }
    \cup { <<"Decimal64", 18, 7>>, <<"Decimal128", 38, 7>>, <<"Decimal256", 9, 7>>,
           <<"Decimal256", 10, 7>> }
    \cup { <<"DateTime", tz, 0>> : tz \in Tz }
    \cup { <<"DateTime64", tz, p, 0>> : tz \in Tz, p \in {0, 3, 6} }
    \cup { <<e, i>> : e \in {"Enum8", "Enum16"}, i \in 0..3 }

ContainerValues ==
    { <<"Array", <<>> >>, <<"Array", << <<"Int8", 0>> >> >>,
      <<"Array", << <<"Int8", 0>>, Null >> >>,
      <<"Tuple", <<>> >>, <<"Tuple", << <<"Int8", 0>> >> >>,
      <<"Tuple", << <<"Int8", 0>>, <<"String", <<>> >> >> >>,
      <<"Tuple", << <<"Int8", 0>>, <<"String", <<>> >>, <<"Int8", 0>> >> >>,
      <<"Map", <<>>, <<>> >>,
      <<"Map", << <<"String", <<>> >> >>, << <<"Int8", 0>> >> >>,
      <<"Map", << <<"String", <<>> >> >>, <<>> >>,
      <<"Map", << <<"String", <<>> >> >>, << <<"Array", <<>> >> >> >> }

ValueUniverse == ScalarValues \cup ContainerValues

InitValue ==
    /\ build = "debug"
    /\ ty \in ValueTypes
    /\ value \in ValueUniverse
    /\ text = None /\ parsed = None /\ result = None /\ vresult = None
    /\ pc = "start"
    /\ NoCodec /\ NoRow

ValidateValue ==
    /\ pc = "start"
    /\ vresult' = validate_value(ty, value)
    /\ pc' = "value_validated"
    /\ UNCHANGED <<build, ty, text, parsed, result, value>>
    /\ UNCHANGED <<codecVars, rowVars>>

NextValue == ValidateValue

SpecValue == InitValue /\ [][NextValue]_vars

-----------------------------------------------------------------------------
(* Specification: a type's default value is validated against the type *)

InitDefault ==
    /\ build = "debug"
    /\ ty \in TypeUniverse
    /\ text = None /\ parsed = None /\ result = None
    /\ value = None /\ vresult = None
    /\ pc = "start"
    /\ NoCodec /\ NoRow

DefaultValue ==
    /\ pc = "start"
    /\ value' = default_value(ty)
    /\ pc' = "defaulted"
    /\ UNCHANGED <<build, ty, text, parsed, result, vresult>>
    /\ UNCHANGED <<codecVars, rowVars>>

ValidateDefault ==
    /\ pc = "defaulted"
    /\ vresult' = validate_value(ty, value)
    /\ pc' = "value_validated"
    /\ UNCHANGED <<build, ty, text, parsed, result, value>>
    /\ UNCHANGED <<codecVars, rowVars>>

NextDefault == DefaultValue \/ ValidateDefault

SpecDefault == InitDefault /\ [][NextDefault]_vars

-----------------------------------------------------------------------------
(* Deserializer::read_n and Serializer::write_n, the default bodies *)

MaxRows == 3        \* values read or written in one bulk call

\* the reader's answer to a Self::read call that fails
Fail == <<"Fail">>

NoType ==
    /\ ty = None /\ text = None /\ parsed = None /\ result = None
    /\ value = None /\ vresult = None

\* Self::read, which the trait leaves to the strategy: the call hands out the
\* next item of the stream, or fails (a failing item, or nothing left)
read(s, made) ==
    IF made + 1 > Len(s) THEN Err("unexpected end of stream")
    ELSE IF s[made + 1] = Fail THEN Err("read failed")
    ELSE <<"Ok", s[made + 1]>>

\* Self::write, which the trait leaves to the strategy: the wfail-th call fails
write(made, failing) ==
    IF made + 1 = failing THEN Err("write failed") ELSE <<"Ok">>

\* mutant: the value is put in front of the ones read before
push_front(vec, v) == <<v>> \o vec

\* out.push(..)
push(vec, v) == Append(vec, v)

BulkItems == { <<"UInt8", 1>>, <<"UInt8", 2>> }

InitBulk ==
    /\ build = "debug"
    /\ NoType /\ NoRow
    /\ \/ /\ pc = "read_n"
          /\ stream \in SeqsUpTo(BulkItems \cup {Fail}, MaxRows)
          /\ rows \in 0..MaxRows
          /\ outv = <<>>                       \* Vec::with_capacity(n)
          /\ values = None /\ wfail = None /\ written = None
       \/ /\ pc = "write_n"
          /\ values \in SeqsUpTo(BulkItems, MaxRows)
          /\ wfail \in 0..MaxRows
          /\ written = <<>>
          /\ stream = None /\ rows = None /\ outv = None
    /\ iter = 0
    /\ calls = 0
    /\ cresult = None

\* one turn of `for _ in 0..n { out.push(Self::read(..).await?); }`
ReadNStep ==
    /\ pc = "read_n"
    /\ iter < rows
    /\ LET r == read(stream, calls)
       IN  /\ calls' = calls + 1
           /\ IF r[1] # "Ok"
              THEN /\ cresult' = r
                   /\ pc' = "done"
                   /\ UNCHANGED <<outv, iter>>
              ELSE /\ outv' = push(outv, r[2])
                   /\ iter' = iter + 1
                   /\ UNCHANGED <<cresult, pc>>
    /\ UNCHANGED <<build, ty, text, parsed, result, value, vresult>>
    /\ UNCHANGED <<stream, rows, values, wfail, written, rowVars>>

\* Ok(out)
ReadNReturn ==
    /\ pc = "read_n"
    /\ ~(iter < rows)
    /\ cresult' = <<"Ok", outv>>
    /\ pc' = "done"
    /\ UNCHANGED <<build, ty, text, parsed, result, value, vresult>>
    /\ UNCHANGED <<stream, rows, values, wfail, written, iter, outv, calls, rowVars>>

\* one turn of `for value in values { Self::write(.., value, ..).await?; }`
WriteNStep ==
    /\ pc = "write_n"
    /\ iter < Len(values)
    /\ LET r == write(calls, wfail)
       IN  /\ calls' = calls + 1
           /\ IF r[1] # "Ok"
              THEN /\ cresult' = r
                   /\ pc' = "done"
                   /\ UNCHANGED <<written, iter>>
              ELSE /\ written' = Append(written, values[iter + 1])
                   /\ iter' = iter + 1
                   /\ UNCHANGED <<cresult, pc>>
    /\ UNCHANGED <<build, ty, text, parsed, result, value, vresult>>
    /\ UNCHANGED <<stream, rows, values, wfail, outv, rowVars>>

\* Ok(())
WriteNReturn ==
    /\ pc = "write_n"
    /\ ~(iter < Len(values))
    /\ cresult' = <<"Ok">>
    /\ pc' = "done"
    /\ UNCHANGED <<build, ty, text, parsed, result, value, vresult>>
    /\ UNCHANGED <<stream, rows, values, wfail, written, iter, outv, calls, rowVars>>

NextBulk == ReadNStep \/ ReadNReturn \/ WriteNStep \/ WriteNReturn

SpecBulk == InitBulk /\ [][NextBulk]_vars

-----------------------------------------------------------------------------
(* impl Row for bool: deserialize_row *)

MaxColumns == 2     \* entries of the column list

\* mutant: every non-zero byte is true
bool_of_nonzero(v) == v # 0

\* match v { 1 => true, _ => false }
bool_of(v) == v = 1

RECURSIVE first_uint8(_, _)
\* for (_name, _ttype, value) in map { if let Value::UInt8(v) = value { return .. } }
first_uint8(m, k) ==
    IF k > Len(m) THEN Err("touch luck")
    ELSE IF m[k][3][1] = "UInt8" THEN <<"Ok", bool_of(m[k][3][2])>>
    ELSE first_uint8(m, k + 1)

deserialize_row(m) ==
    IF Len(m) # 1 THEN Err("boolean result should have len 1")
    ELSE first_uint8(m, 1)

\* (name, type, value) triples
Columns ==
    { <<name, t, v>> :
        name \in {"x", "y"},
        t \in { <<"UInt8">>, String },
        v \in { <<"UInt8", 0>>, <<"UInt8", 1>>, <<"UInt8", 2>>, <<"Int8", 1>>,
                <<"String", <<>> >>, Null } }

InitRow ==
    /\ build = "debug"
    /\ NoType /\ NoCodec
    /\ map \in SeqsUpTo(Columns, MaxColumns)
    /\ row = None
    /\ pc = "start"

DeserializeRow ==
    /\ pc = "start"
    /\ row' = deserialize_row(map)
    /\ pc' = "row_done"
    /\ UNCHANGED <<build, ty, text, parsed, result, value, vresult, codecVars, map>>

NextRow == DeserializeRow

SpecRow == InitRow /\ [][NextRow]_vars

-----------------------------------------------------------------------------
(* Structure of a type, used to state the properties *)

RECURSIVE SubTypesOfMembers(_, _), SubTypes(_)

\* t and every type occurring inside t
SubTypes(t) ==
    {t} \cup
    CASE t[1] \in {"Array", "Nullable", "LowCardinality"} -> SubTypes(t[2])
      [] t[1] = "Tuple" -> SubTypesOfMembers(t[2], 1)
      [] t[1] = "Map" -> SubTypes(t[2]) \cup SubTypes(t[3])
      [] OTHER -> {}

SubTypesOfMembers(ts, i) ==
    IF i > Len(ts) THEN {} ELSE SubTypes(ts[i]) \cup SubTypesOfMembers(ts, i + 1)

Max2(a, b) == IF a >= b THEN a ELSE b

RECURSIVE ArrayMapDepth(_), ArrayMapDepthOfMembers(_, _)

\* the largest number of Array/Map constructors on a root-to-leaf path of t
ArrayMapDepth(t) ==
    CASE t[1] = "Array" -> 1 + ArrayMapDepth(t[2])
      [] t[1] = "Map" -> 1 + Max2(ArrayMapDepth(t[2]), ArrayMapDepth(t[3]))
      [] t[1] \in {"Nullable", "LowCardinality"} -> ArrayMapDepth(t[2])
      [] t[1] = "Tuple" -> ArrayMapDepthOfMembers(t[2], 1)
      [] OTHER -> 0

ArrayMapDepthOfMembers(ts, i) ==
    IF i > Len(ts) THEN 0
    ELSE Max2(ArrayMapDepth(ts[i]), ArrayMapDepthOfMembers(ts, i + 1))

Validated == pc = "validated"
Accepted == Validated /\ result = Ok
Rejected == Validated /\ result # Ok

CompositeNames == {"Array", "Map", "LowCardinality", "Tuple", "Nullable"}

-----------------------------------------------------------------------------
(* Properties of Type::validate *)

\* C2: a type that validates has no Nullable(T), at the root or nested, whose
\* T is an Array, Map, LowCardinality, Tuple or Nullable; Nullable(Array(Int8))
\* and Nullable(Nullable(Int8)) are rejected.
C2_NullableRule ==
    /\ Accepted =>
          \A u \in SubTypes(ty) : u[1] = "Nullable" => u[2][1] \notin CompositeNames
    /\ (Validated /\ ty \in {Nullable(Array(Int8)), Nullable(Nullable(Int8))})
          => result # Ok

C2_Witness ==
    Accepted /\ ty = Array(Nullable(Int8))

\* the inner types the LowCardinality rule names
C3_Allowed(T) ==
    LET S == IF T[1] = "Nullable" THEN T[2] ELSE T
    IN  S[1] \in {"String", "FixedString", "Date", "DateTime", "Ipv4", "Ipv6",
                  "Int8", "Int16", "Int32", "Int64", "Int128", "Int256",
                  "UInt8", "UInt16", "UInt32", "UInt64", "UInt128", "UInt256"}

\* C3: LowCardinality(T) validates exactly when T, with at most one outer
\* Nullable stripped, is String, FixedString, Date, DateTime, Ipv4, Ipv6 or an
\* integer type; every other inner type is rejected.
C3_LowCardinalityRule ==
    /\ (Validated /\ ty[1] = "LowCardinality") => (result = Ok <=> C3_Allowed(ty[2]))
    /\ (Validated /\ ty \in {LowCardinality(Array(Int8)), LowCardinality(Float32),
                             LowCardinality(Nullable(Nullable(String)))})
          => result # Ok

C3_Witness ==
    Accepted /\ ty = LowCardinality(Nullable(String))

\* C4: a Map(K,V) that validates, at the root or nested, has K a String,
\* FixedString or integer and V a String, FixedString, integer or Array;
\* Map(Float32, Int8) is rejected.
C4_MapRule ==
    /\ Accepted =>
          \A u \in SubTypes(ty) : u[1] = "Map" =>
              /\ u[2][1] \in {"String", "FixedString"} \cup IntegerNames
              /\ u[3][1] \in {"String", "FixedString", "Array"} \cup IntegerNames
    /\ (Validated /\ ty[1] = "Map"
          /\ ty[3][1] \in {"Nullable", "LowCardinality", "Tuple", "Map",
                           "Float32", "Float64", "Date"})
          => result # Ok
    /\ (Validated /\ ty = Map(Float32, Int8)) => result # Ok

C4_Witness ==
    Accepted /\ ty = Map(String, Array(Int8))

TooManyDimensions == "too many dimensions (limited to 2D structure)"

\* C5: a type with more than two Array/Map constructors on some root-to-leaf
\* path is rejected; a type with at most two on every path is never rejected
\* for its depth; Array(Array(Int8)) and Map(String, Array(Int8)) validate.
C5_NestingDepth ==
    /\ (Validated /\ ArrayMapDepth(ty) > 2) => result # Ok
    /\ (Validated /\ ArrayMapDepth(ty) <= 2) => result # TooManyDimensions
    /\ (Validated /\ ty \in {Array(Array(Int8)), Map(String, Array(Int8))})
          => result = Ok

C5_Witness ==
    /\ Validated
    /\ ty = Array(Tuple(<<Array(Tuple(<<Array(Int8)>>))>>))
    /\ result = TooManyDimensions

\* C6: Decimal32(s) validates iff 1 <= s <= 9, Decimal64(s) iff 1 <= s <= 18,
\* DateTime64(p, tz) iff 1 <= p <= 18, Decimal128(s) iff 1 <= s <= 38.
C6_NarrowBounds ==
    Validated =>
        /\ ty[1] = "Decimal32" => (result = Ok <=> (1 <= ty[2] /\ ty[2] <= 9))
        /\ ty[1] = "Decimal64" => (result = Ok <=> (1 <= ty[2] /\ ty[2] <= 18))
        /\ ty[1] = "DateTime64" => (result = Ok <=> (1 <= ty[2] /\ ty[2] <= 18))
        /\ ty[1] = "Decimal128" => (result = Ok <=> (1 <= ty[2] /\ ty[2] <= 38))

C6_Witness ==
    Rejected /\ ty = Decimal128(39)

\* C7: Decimal256(s) validates iff 1 <= s <= 76.
C7_Decimal256Bound ==
    (Validated /\ ty[1] = "Decimal256")
        => (result = Ok <=> (1 <= ty[2] /\ ty[2] <= 76))

\* C9: when a type validates, so does every type occurring inside it.
C9_Monotonicity ==
    Accepted => \A u \in SubTypes(ty) : validate(u, 0) = Ok

C9_Witness ==
    Accepted /\ ty = Tuple(<<Int8, Array(Int8)>>)

-----------------------------------------------------------------------------
(* Properties of the printer and the parser *)

HasEnum(t) == \E u \in SubTypes(t) : u[1] \in {"Enum8", "Enum16"}

\* C1: every type that validates, Enum8/Enum16 included, is parsed back from
\* its printed form as a structurally equal type.
C1_RoundTrip ==
    (pc = "parsed" /\ validate(ty, 0) = Ok) => parsed = <<"Ok", ty>>

\* what does hold: the round trip of the validating types without an Enum
RoundTripWithoutEnum ==
    (pc = "parsed" /\ validate(ty, 0) = Ok /\ ~HasEnum(ty)) => parsed = <<"Ok", ty>>

\* C10: "Decimal(p, s)" parses to Decimal32(s) when p <= 9, Decimal64(s) when
\* 9 < p <= 18, Decimal128(s) when 18 < p <= 38, Decimal256(s) when
\* 38 < p <= 76 and to an error when p > 76, whatever whitespace surrounds the
\* two arguments.
C10_DecimalNarrowing ==
    pc = "parsed" =>
        \A c \in DecimalCases : c[1] = text =>
            LET p == c[2]
                s == c[3]
            IN  /\ p <= 9 => parsed = <<"Ok", Decimal32(s)>>
                /\ (9 < p /\ p <= 18) => parsed = <<"Ok", Decimal64(s)>>
                /\ (18 < p /\ p <= 38) => parsed = <<"Ok", Decimal128(s)>>
                /\ (38 < p /\ p <= 76) => parsed = <<"Ok", Decimal256(s)>>
                /\ p > 76 => parsed[1] = "Err"

C10_Witness ==
    /\ pc = "parsed"
    /\ text = <<"D", "e", "c", "i", "m", "a", "l", "(", "2", "0", ",", " ", "4", ")">>
    /\ parsed = <<"Ok", Decimal128(4)>>

\* C11: "DateTime" parses to DateTime(UTC) and "DateTime64(p)" to
\* DateTime64(p, UTC) for every p; with a quoted timezone the parsed type
\* carries exactly that timezone.
C11_TimezoneDefaults ==
    pc = "parsed" =>
        \A c \in TzCases : c[1] = text =>
            /\ c[2] = "DateTime" => parsed = <<"Ok", DateTime(UTC)>>
            /\ c[2] = "DateTime64(p)" => parsed = <<"Ok", DateTime64(c[3], UTC)>>
            /\ c[2] = "DateTime(tz)" => parsed = <<"Ok", DateTime(c[4])>>
            /\ c[2] = "DateTime64(p,tz)" => parsed = <<"Ok", DateTime64(c[3], c[4])>>

C11_Witness ==
    /\ pc = "parsed"
    /\ text = <<"D", "a", "t", "e", "T", "i", "m", "e", "6", "4", "(", "6", ")">>
    /\ parsed = <<"Ok", DateTime64(6, UTC)>>

\* C12: from_str returns an error for an unknown identifier, for a scalar
\* name followed by an argument list, and for a constructor given a number of
\* arguments other than its arity, an empty segment counting as an argument.
C12_UnknownAndArity ==
    (pc = "parsed" /\ text \in UnknownNameTexts \cup ScalarWithArgsTexts
                              \cup BadArityTexts \cup TrailingCommaTexts)
        => parsed[1] = "Err"

\* what does hold: the same, the texts with an empty last segment left out
ArityErrorsWithoutTrailingComma ==
    (pc = "parsed" /\ text \in UnknownNameTexts \cup ScalarWithArgsTexts \cup BadArityTexts)
        => parsed[1] = "Err"

\* C13: from_str returns an error, and does not abort, for every argument
\* list with unbalanced or wrongly ordered parentheses.
C13_ParenMismatch ==
    (pc = "parsed" /\ text \in MismatchedParenTexts) => parsed[1] = "Err"

\* what does hold: no such text is accepted
MismatchNeverAccepted ==
    (pc = "parsed" /\ text \in MismatchedParenTexts) => parsed[1] # "Ok"

\* C14: from_str returns an error for DateTime(arg) and DateTime64(p, arg)
\* whenever arg is not a known timezone name between two single quotes: an
\* unquoted name, a name quoted on one side, an unknown name, a lone quote.
C14_TimezoneQuoting ==
    (pc = "parsed" /\ text \in BadTimezoneTexts) => parsed[1] = "Err"

\* C15: from_str ends with a result value, Ok or an error, for every
\* Enum8(...), Enum16(...) and Nested(...) with a well-formed argument list.
C15_UnsupportedReturns ==
    (pc = "parsed" /\ text \in UnsupportedTexts) => parsed[1] \in {"Ok", "Err"}

-----------------------------------------------------------------------------
(* Properties of Type::validate_value *)

ContainerNames == {"Array", "Tuple", "Nullable", "Map", "LowCardinality"}

\* the Value variant that belongs to a non-container Type constructor
VariantOf(t) == IF t[1] = "FixedString" THEN "String" ELSE t[1]

\* C8: validate_value succeeds for a non-container type only if the value's
\* variant is the one of the type's constructor and, besides, a Decimal's
\* scale, a DateTime's timezone, a DateTime64's timezone and precision equal
\* the type's, and an Enum index is the number of a declared entry; a DateTime
\* value with the same seconds but another timezone is rejected.
C8_ScalarConformance ==
    /\ (pc = "value_validated" /\ ty[1] \notin ContainerNames /\ vresult = Ok) =>
          /\ value[1] = VariantOf(ty)
          /\ ty[1] \in {"Decimal32", "Decimal64", "Decimal128", "Decimal256"}
                => value[2] = ty[2]
          /\ ty[1] = "DateTime" => value[2] = ty[2]
          /\ ty[1] = "DateTime64" => (value[2] = ty[3] /\ value[3] = ty[2])
          /\ ty[1] \in {"Enum8", "Enum16"}
                => \E i \in 1..Len(ty[2]) : ty[2][i][2] = value[2]
    /\ (pc = "value_validated" /\ ty = DateTime(UTC) /\ value = <<"DateTime", Tokyo, 0>>)
          => vresult # Ok

C8_Witness ==
    /\ pc = "value_validated"
    /\ ty = DateTime64(6, Tokyo)
    /\ value = <<"DateTime64", Tokyo, 6, 0>>
    /\ vresult = Ok

\* C18: validate_value(Tuple(T1..Tk), Tuple(v1..vm)) succeeds only if m = k
\* and every vi conforms to Ti; a tuple value with fewer or more members than
\* the type is rejected.
C18_TupleArity ==
    (pc = "value_validated" /\ ty[1] = "Tuple" /\ value[1] = "Tuple" /\ vresult = Ok) =>
        /\ Len(value[2]) = Len(ty[2])
        /\ \A i \in 1..Len(ty[2]) : inner_validate_value(ty[2][i], value[2][i])

\* what does hold: the members present on both sides conform
TupleCommonPrefixConforms ==
    (pc = "value_validated" /\ ty[1] = "Tuple" /\ value[1] = "Tuple" /\ vresult = Ok) =>
        \A i \in 1..Min2(Len(ty[2]), Len(value[2])) :
            inner_validate_value(ty[2][i], value[2][i])

\* C19: validate_value(Map(K,V), Map(keys, values)) succeeds only if keys and
\* values have the same length, every key conforms to K and every value to V.
C19_MapParallel ==
    (pc = "value_validated" /\ ty[1] = "Map" /\ value[1] = "Map" /\ vresult = Ok) =>
        /\ Len(value[2]) = Len(value[3])
        /\ \A i \in 1..Len(value[2]) : inner_validate_value(ty[2], value[2][i])
        /\ \A i \in 1..Len(value[3]) : inner_validate_value(ty[3], value[3][i])

\* what does hold: every key and every value conforms
MapElementsConform ==
    (pc = "value_validated" /\ ty[1] = "Map" /\ value[1] = "Map" /\ vresult = Ok) =>
        /\ \A i \in 1..Len(value[2]) : inner_validate_value(ty[2], value[2][i])
        /\ \A i \in 1..Len(value[3]) : inner_validate_value(ty[3], value[3][i])

\* C20: for every type that validates, Enum8/Enum16 without an entry numbered
\* 0 included, the type's default value conforms to the type.
C20_DefaultsConform ==
    (pc = "value_validated" /\ validate(ty, 0) = Ok) => vresult = Ok

EnumsHaveZero(t) ==
    \A u \in SubTypes(t) : u[1] \in {"Enum8", "Enum16"} =>
        \E i \in 1..Len(u[2]) : u[2][i][2] = 0

\* what does hold: the same for the types all of whose Enums declare number 0
DefaultsConformWhenEnumsHaveZero ==
    (pc = "value_validated" /\ validate(ty, 0) = Ok /\ EnumsHaveZero(ty)) => vresult = Ok

-----------------------------------------------------------------------------
(* Properties of the default bulk operations and of bool's deserialize_row *)

\* the first k in 1..m for which P(k), or 0
FirstFailing(s, m) ==
    LET bad == { k \in 1..m : k > Len(s) \/ s[k] = Fail }
    IN  IF bad = {} THEN 0 ELSE CHOOSE k \in bad : \A j \in bad : k <= j

\* C16: the default read_n(n) makes exactly n read calls in sequence and
\* returns the n values in read order, and on the first failing read returns
\* that error without reading further; the default write_n writes the values
\* in vector order, one call each, and stops at the first failing write.
C16_DefaultBulk ==
    /\ pc = "read_n" =>
          /\ calls = iter
          /\ outv = SubSeq(stream, 1, iter)
    /\ (pc = "done" /\ stream # None) =>
          LET f == FirstFailing(stream, rows)
          IN  IF f = 0
              THEN cresult = <<"Ok", SubSeq(stream, 1, rows)>> /\ calls = rows
              ELSE cresult[1] = "Err" /\ calls = f
    /\ pc = "write_n" =>
          /\ calls = iter
          /\ written = SubSeq(values, 1, iter)
    /\ (pc = "done" /\ values # None) =>
          IF wfail = 0 \/ wfail > Len(values)
          THEN cresult = <<"Ok">> /\ written = values /\ calls = Len(values)
          ELSE /\ cresult[1] = "Err"
               /\ calls = wfail
               /\ written = SubSeq(values, 1, wfail - 1)

C16_Witness ==
    /\ pc = "done"
    /\ stream = << <<"UInt8", 1>>, Fail, <<"UInt8", 2>> >>
    /\ rows = 3
    /\ cresult[1] = "Err"
    /\ calls = 2

\* C17: bool's deserialize_row returns an error unless the column list has
\* exactly one entry; for one entry holding UInt8(v) it returns v == 1,
\* whatever the name and type; for one entry of another variant, an error.
C17_BoolRow ==
    pc = "row_done" =>
        /\ Len(map) # 1 => row[1] = "Err"
        /\ (Len(map) = 1 /\ map[1][3][1] = "UInt8") => row = <<"Ok", map[1][3][2] = 1>>
        /\ (Len(map) = 1 /\ map[1][3][1] # "UInt8") => row[1] = "Err"

C17_Witness ==
    /\ pc = "row_done"
    /\ map = << <<"y", String, <<"UInt8", 2>> >> >>
    /\ row = <<"Ok", FALSE>>

=============================================================================
